---- MODULE Spec2Model ----
(***************************************************************************)
(* Model of typecheck.py: the decorator optional_typecheck, which wraps a  *)
(* callable and checks the annotated parameters before the call and the    *)
(* annotated return value after it.                                        *)
(*                                                                         *)
(* A callable is a record: its signature (as inspect.getfullargspec        *)
(* reports it), its annotations at definition time and its body.  Values   *)
(* carry their runtime type.  A dict such as the one getcallargs returns   *)
(* is a sequence of [name, val] entries, because Python dicts iterate in   *)
(* insertion order and the wrapper raises on the first mismatch it meets.  *)
(***************************************************************************)
EXTENDS Integers, Sequences, FiniteSets, TLC

\* ------------------------------------------------------------------ bounds
\* most positional arguments of a call
MaxPos == 2
\* most keyword arguments of a call
MaxKw == 1
\* most invocations started in one behaviour
MaxCalls == 2
\* most changes the environment makes to annotation dicts
MaxMutations == 1

\* ------------------------------------------------------- values and types
NoName == ""

Min(a, b) == IF a < b THEN a ELSE b

Range(s) == {s[i] : i \in 1..Len(s)}

EmptyMap == [n \in {} |-> "object"]

\* a value of a scalar type
Scalar(ty, n) == [ty |-> ty, n |-> n, items |-> <<>>, keys |-> <<>>]

Int1 == Scalar("int", 1)
True == Scalar("bool", 1)
StrA == Scalar("str", 1)
None == Scalar("NoneType", 0)

Entry(name, val) == [name |-> name, val |-> val]

\* tuple(positional[n:])
TupleOf(vals) == [ty |-> "tuple", n |-> 0, items |-> vals, keys |-> <<>>]

\* a dict of keyword arguments, in insertion order
DictOf(entries) ==
    [ty |-> "dict", n |-> 0,
     items |-> [i \in 1..Len(entries) |-> entries[i].val],
     keys |-> [i \in 1..Len(entries) |-> entries[i].name]]

\* the direct base class of a type; object is its own
Base(t) ==
    CASE t = "bool" -> "int"
      [] OTHER -> "object"

\* type(val).__mro__
Mro(t) == {t, Base(t), Base(Base(t))}

\* a buggy check: exact type equality
IsInstanceExact(val, T) == val.ty = T

\* isinstance(val, T): the runtime type is T or derives from it
IsInstance(val, T) == T \in Mro(val.ty)

\* ---------------------------------------------------------------- binding
Keys(entries) == {entries[i].name : i \in 1..Len(entries)}

Lookup(entries, name) ==
    (CHOOSE i \in 1..Len(entries) : entries[i].name = name)

\* the defaults of the positional parameters no argument was bound to
RECURSIVE DefaultEntries(_, _, _, _)
DefaultEntries(names, vals, bound, i) ==
    IF i > Len(names) THEN <<>>
    ELSE (IF names[i] \in bound THEN <<>> ELSE <<Entry(names[i], vals[i])>>)
         \o DefaultEntries(names, vals, bound, i + 1)

\* the defaults of the keyword-only parameters no argument was bound to
RECURSIVE KwOnlyEntries(_, _, _, _)
KwOnlyEntries(names, dflt, bound, i) ==
    IF i > Len(names) THEN <<>>
    ELSE (IF names[i] \notin bound /\ names[i] \in DOMAIN dflt
          THEN <<Entry(names[i], dflt[names[i]])>> ELSE <<>>)
         \o KwOnlyEntries(names, dflt, bound, i + 1)

\* The binding algorithm of inspect.getcallargs, with the set of parameter
\* names a keyword may bind as a parameter.  [ok, items]: ok is FALSE where
\* the algorithm raises TypeError, items is arg2value in insertion order.
BindArguments(sig, positional, named, possible_kwargs) ==
    LET args == sig.args
        num_pos == Len(positional)
        num_args == Len(args)
        num_defaults == Len(sig.defaults)
        n == Min(num_pos, num_args)
        posItems == [i \in 1..n |-> Entry(args[i], positional[i])]
        varargsItems ==
            IF sig.varargs # NoName
            THEN <<Entry(sig.varargs, TupleOf(SubSeq(positional, n + 1, num_pos)))>>
            ELSE <<>>
        extra == SelectSeq(named, LAMBDA e : e.name \notin possible_kwargs)
        matched == SelectSeq(named, LAMBDA e : e.name \in possible_kwargs)
        varkwItems ==
            IF sig.varkw # NoName
            THEN <<Entry(sig.varkw, DictOf(extra))>>
            ELSE <<>>
        early == posItems \o varargsItems \o varkwItems
        bound1 == early \o matched
        unexpected == extra # <<>> /\ sig.varkw = NoName
        multiple == \E i \in 1..Len(matched) : matched[i].name \in Keys(early)
        too_many == num_pos > num_args /\ sig.varargs = NoName
        req == SubSeq(args, 1, num_args - num_defaults)
        missing ==
            /\ num_pos < num_args
            /\ \E i \in 1..Len(req) : req[i] \notin Keys(bound1)
        defaultItems ==
            IF num_pos < num_args
            THEN DefaultEntries(SubSeq(args, num_args - num_defaults + 1, num_args),
                                sig.defaults, Keys(bound1), 1)
            ELSE <<>>
        bound2 == bound1 \o defaultItems
        kwonlyItems ==
            KwOnlyEntries(sig.kwonlyargs, sig.kwonlydefaults, Keys(bound2), 1)
        bound3 == bound2 \o kwonlyItems
        missing_kwonly ==
            \E i \in 1..Len(sig.kwonlyargs) : sig.kwonlyargs[i] \notin Keys(bound3)
    IN  [ok |-> ~(unexpected \/ multiple \/ too_many \/ missing \/ missing_kwonly),
         items |-> bound3]

\* inspect.getcallargs(function, *args, **kwargs): getfullargspec lists the
\* positional-only parameters among args, so a keyword may bind any of them
GetCallArgs(sig, positional, named) ==
    BindArguments(sig, positional, named,
                  Range(sig.args) \cup Range(sig.kwonlyargs))

\* the interpreter's own binding of function(*args, **kwargs): a keyword
\* never binds a positional-only parameter
CallBinding(sig, positional, named) ==
    BindArguments(sig, positional, named,
                  Range(SubSeq(sig.args, sig.nposonly + 1, Len(sig.args)))
                      \cup Range(sig.kwonlyargs))

\* ---------------------------------------------------------------- callables
Sig(args, nposonly, defaults, varargs, kwonlyargs, kwonlydefaults, varkw) ==
    [args |-> args, nposonly |-> nposonly, defaults |-> defaults,
     varargs |-> varargs, kwonlyargs |-> kwonlyargs,
     kwonlydefaults |-> kwonlydefaults, varkw |-> varkw]

Plain(args) == Sig(args, 0, <<>>, NoName, <<>>, EmptyMap, NoName)

\* def wrapper(*args, **kwargs)
WrapperSig == Sig(<<>>, 0, <<>>, "args", <<>>, EmptyMap, "kwargs")

Def(name, sig, ann, body, val) ==
    [name |-> name, sig |-> sig, ann |-> ann, body |-> body, val |-> val]

\* def foo(x: int) -> str: return "{}".format(x)
foo == Def("foo", Plain(<<"x">>), [x |-> "int", return |-> "str"], "format", None)

\* def bar(x: int) -> int: return "badreturn"
bar == Def("bar", Plain(<<"x">>), [x |-> "int", return |-> "int"], "const", StrA)

\* def qux(x: int, y, z: int): return "{}{}{}".format(x, y, z)
qux == Def("qux", Plain(<<"x", "y", "z">>), [x |-> "int", z |-> "int"], "format", None)

\* Callables beyond the test suite's, one for each shape of signature that
\* getcallargs tells apart.
\* def ident(x: int) -> int: return x
ident == Def("ident", Plain(<<"x">>), [x |-> "int", return |-> "int"], "echo", None)

\* def boom(x: int) -> int: raise ValueError
boom == Def("boom", Plain(<<"x">>), [x |-> "int", return |-> "int"], "raise", None)

\* def plain(x, y=1): return x
plain == Def("plain", Sig(<<"x", "y">>, 0, <<Int1>>, NoName, <<>>, EmptyMap, NoName),
             EmptyMap, "echo", None)

\* def dflt(x: int, y: int = "a") -> object: return x
dflt == Def("dflt", Sig(<<"x", "y">>, 0, <<StrA>>, NoName, <<>>, EmptyMap, NoName),
            [x |-> "int", y |-> "int", return |-> "object"], "echo", None)

\* def star(x: int, *rest, k: int = 1, **kw): return x
star == Def("star", Sig(<<"x">>, 0, <<>>, "rest", <<"k">>, [k |-> Int1], "kw"),
            [x |-> "int", k |-> "int"], "echo", None)

\* def posonly(x: int, /): return x
posonly == Def("posonly", Sig(<<"x">>, 1, <<>>, NoName, <<>>, EmptyMap, NoName),
               [x |-> "int"], "echo", None)

\* def poskw(x, /, **kw): return x
poskw == Def("poskw", Sig(<<"x">>, 1, <<>>, NoName, <<>>, EmptyMap, "kw"),
             EmptyMap, "echo", None)

\* def takes_args(args: int): return args
takes_args == Def("takes_args", Plain(<<"args">>), [args |-> "int"], "echo", None)

TestSuiteCallables == {foo, bar, qux}

Callables ==
    TestSuiteCallables \cup {ident, boom, plain, dflt, star, posonly, poskw, takes_args}

Values == {Int1, True, StrA}

\* the keywords a call of f is tried with: its parameters' names and one
\* name that is no parameter of it
KwNames(f) == Range(f.sig.args) \cup Range(f.sig.kwonlyargs) \cup {"zz"}

\* the positional argument lists of at most n values
PosLists(vals, n) == UNION {[1..k -> vals] : k \in 0..n}

\* the keyword argument dicts of at most n entries, in insertion order
KwLists(names, vals, n) ==
    {kw \in UNION {[1..k -> [name : names, val : vals]] : k \in 0..n} :
        \A i, j \in 1..Len(kw) : i # j => kw[i].name # kw[j].name}

\* the body of f run on its bound arguments: [kind, val]
Body(f, items) ==
    CASE f.body = "format" -> [kind |-> "return", val |-> StrA]
      [] f.body = "const" -> [kind |-> "return", val |-> f.val]
      [] f.body = "echo" ->
            [kind |-> "return", val |-> items[Lookup(items, f.sig.args[1])].val]
      [] OTHER -> [kind |-> "FError", val |-> None]

Outcome(kind, name, expected, actual, val) ==
    [kind |-> kind, name |-> name, expected |-> expected, actual |-> actual,
     val |-> val]

Pending == Outcome("pending", NoName, NoName, NoName, None)

\* function(*args, **kwargs) called directly: the interpreter binds the
\* arguments and runs the body.  [out, ran]: the call's outcome and whether
\* the body ran.
CallFunction(f, positional, named) ==
    LET b == CallBinding(f.sig, positional, named)
        r == Body(f, b.items)
    IN  IF ~b.ok
        THEN [out |-> Outcome("BindingError", NoName, NoName, NoName, None),
              ran |-> 0]
        ELSE [out |-> Outcome(r.kind, NoName, NoName, NoName, r.val), ran |-> 1]

\* ------------------------------------------------------------------ state
VARIABLES
    fn,           \* the decorated callable F
    heap,         \* the annotation dicts, by identity
    attr,         \* the __annotations__ attribute of F and of the wrapper
    annotations,  \* the closure variable of each wrapper: a dict's identity
    pc,           \* where each thread's invocation stands
    target,       \* the wrapper a thread called: 1 = wrap(F), 2 = wrap(wrap(F))
    level,        \* the wrapper whose frame the thread is running
    posargs,      \* args of the invocation
    kwargs,       \* kwargs of the invocation
    callargs,     \* the dict getcallargs returned, a local of the frame
    result,       \* the local result
    outcome,      \* what the invocation produced for its caller
    ran,          \* how often F's body ran in the invocation
    checked,      \* the names whose value went through isinstance
    sideEffects,  \* how often F's body ran at all
    calls,        \* invocations started
    mutations     \* changes made to annotation dicts from outside

vars == <<fn, heap, attr, annotations, pc, target, level, posargs, kwargs,
          callargs, result, outcome, ran, checked, sideEffects, calls, mutations>>

Threads == {1, 2}

Levels == {1, 2}

\* a frame whose locals are another frame's
SlotShared(p) == 1

\* the frame holding thread p's locals: each invocation has its own
Slot(p) == p

\* the signature getcallargs reads off `function`: F's for wrap(F), the
\* inner wrapper's own for wrap(wrap(F))
SigAt(lvl) == IF lvl = 1 THEN fn.sig ELSE WrapperSig

\* a table that declares int for every parameter F left undeclared
TableDefaulted(lvl) ==
    LET t == heap[annotations[lvl]]
    IN  [n \in DOMAIN t \cup Range(SigAt(lvl).args) |->
            IF n \in DOMAIN t THEN t[n] ELSE "int"]

\* the dict the wrapper's closure variable annotations refers to
Table(lvl) == heap[annotations[lvl]]

\* name in annotations and not isinstance(val, annotations[name])
ParamMismatch(e, ann) ==
    e.name \in DOMAIN ann /\ ~IsInstance(e.val, ann[e.name])

\* a loop that looks at the first item only
FirstMismatchHeadOnly(items, ann) ==
    IF items # <<>> /\ ParamMismatch(items[1], ann) THEN 1 ELSE 0

\* the item the loop over getcallargs(...).items() raises on, 0 if none
FirstMismatch(items, ann) ==
    IF \E i \in 1..Len(items) : ParamMismatch(items[i], ann)
    THEN CHOOSE i \in 1..Len(items) :
            /\ ParamMismatch(items[i], ann)
            /\ \A j \in 1..(i - 1) : ~ParamMismatch(items[j], ann)
    ELSE 0

\* the names the loop put through isinstance before it ended
CheckedNames(items, ann) ==
    LET m == FirstMismatch(items, ann)
        last == IF m = 0 THEN Len(items) ELSE m
    IN  {items[i].name : i \in {j \in 1..last : items[j].name \in DOMAIN ann}}

\* TypeError("Expected argument '{}' of type {} but got {}.")
ParamError(e, ann) == Outcome("TypeMismatch", e.name, ann[e.name], e.val.ty, None)

\* a wrapper without the return check
ReturnMismatchNever(r, ann) == FALSE

\* "return" in annotations and not isinstance(result, annotations["return"])
ReturnMismatch(r, ann) ==
    "return" \in DOMAIN ann /\ ~IsInstance(r, ann["return"])

\* TypeError("Expected return of type {} but got {}.")
ReturnError(r, ann) == Outcome("TypeMismatch", "return", ann["return"], r.ty, None)

\* a wrapper that turns F's error into a result
PropagateSwallowed(out) == Outcome("return", NoName, NoName, NoName, None)

\* an error of function(*args, **kwargs) leaves the wrapper as it is: the
\* call stands in no try block
Propagate(out) == out

\* a wrapper that forgets to return the result
ReturnedNothing(r) == Outcome("return", NoName, NoName, NoName, None)

\* return result
Returned(r) == Outcome("return", NoName, NoName, NoName, r)

\* ------------------------------------------------------------------- init
\* F is defined and decorated: annotations = function.__annotations__, and
\* functools.wraps gives the wrapper the same dict as its __annotations__
InitWith(fs) ==
    /\ fn \in fs
    /\ heap = <<fn.ann>>
    /\ attr = [function |-> 1, wrapper |-> 1]
    /\ annotations = [l \in Levels |-> 1]
    /\ pc = [p \in Threads |-> "idle"]
    /\ target = [p \in Threads |-> 1]
    /\ level = [p \in Threads |-> 1]
    /\ posargs = [p \in Threads |-> <<>>]
    /\ kwargs = [p \in Threads |-> <<>>]
    /\ callargs = [p \in Threads |-> <<>>]
    /\ result = [p \in Threads |-> None]
    /\ outcome = [p \in Threads |-> Pending]
    /\ ran = [p \in Threads |-> 0]
    /\ checked = [p \in Threads |-> {}]
    /\ sideEffects = 0
    /\ calls = 0
    /\ mutations = 0

Init == InitWith(Callables)

\* ---------------------------------------------------------------- actions
\* thread p calls the wrapper t with (*pos, **kw)
Enter(p, t, pos, kw) ==
    /\ pc' = [pc EXCEPT ![p] = "bind"]
    /\ target' = [target EXCEPT ![p] = t]
    /\ level' = [level EXCEPT ![p] = t]
    /\ posargs' = [posargs EXCEPT ![p] = pos]
    /\ kwargs' = [kwargs EXCEPT ![p] = kw]
    /\ callargs' = [callargs EXCEPT ![Slot(p)] = <<>>]
    /\ result' = [result EXCEPT ![p] = None]
    /\ outcome' = [outcome EXCEPT ![p] = Pending]
    /\ ran' = [ran EXCEPT ![p] = 0]
    /\ checked' = [checked EXCEPT ![p] = {}]

Invoke(p, t, vals, maxkw) ==
    /\ pc[p] = "idle"
    /\ calls < MaxCalls
    /\ calls' = calls + 1
    /\ \E pos \in PosLists(vals, MaxPos), kw \in KwLists(KwNames(fn), vals, maxkw) :
          Enter(p, t, pos, kw)
    /\ UNCHANGED <<fn, heap, attr, annotations, sideEffects, mutations>>

\* the invocation ends with out
Finish(p, out) ==
    /\ outcome' = [outcome EXCEPT ![p] = out]
    /\ pc' = [pc EXCEPT ![p] = "done"]

\* inspect.getcallargs(function, *args, **kwargs)
Bind(p) ==
    /\ pc[p] = "bind"
    /\ LET b == GetCallArgs(SigAt(level[p]), posargs[p], kwargs[p])
       IN  IF b.ok
           THEN /\ callargs' = [callargs EXCEPT ![Slot(p)] = b.items]
                /\ pc' = [pc EXCEPT ![p] = "check"]
                /\ UNCHANGED outcome
           ELSE /\ Finish(p, Outcome("BindingError", NoName, NoName, NoName, None))
                /\ UNCHANGED callargs
    /\ UNCHANGED <<fn, heap, attr, annotations, target, level, posargs, kwargs,
                   result, ran, checked, sideEffects, calls, mutations>>

\* the loop over the bound arguments
Check(p) ==
    /\ pc[p] = "check"
    /\ LET items == callargs[Slot(p)]
           ann == Table(level[p])
           m == FirstMismatch(items, ann)
       IN  /\ checked' = [checked EXCEPT ![p] = @ \cup CheckedNames(items, ann)]
           /\ IF m # 0
              THEN Finish(p, ParamError(items[m], ann))
              ELSE /\ pc' = [pc EXCEPT ![p] = "call"]
                   /\ UNCHANGED outcome
    /\ UNCHANGED <<fn, heap, attr, annotations, target, level, posargs, kwargs,
                   callargs, result, ran, sideEffects, calls, mutations>>

\* result = function(*args, **kwargs), where function is the wrapper below
CallInner(p) ==
    /\ pc[p] = "call"
    /\ level[p] > 1
    /\ level' = [level EXCEPT ![p] = @ - 1]
    /\ pc' = [pc EXCEPT ![p] = "bind"]
    /\ UNCHANGED <<fn, heap, attr, annotations, target, posargs, kwargs, callargs,
                   result, outcome, ran, checked, sideEffects, calls, mutations>>

\* result = function(*args, **kwargs), where function is F
Call(p) ==
    /\ pc[p] = "call"
    /\ level[p] = 1
    /\ LET c == CallFunction(fn, posargs[p], kwargs[p])
       IN  /\ ran' = [ran EXCEPT ![p] = @ + c.ran]
           /\ sideEffects' = sideEffects + c.ran
           /\ IF c.out.kind = "return"
              THEN /\ result' = [result EXCEPT ![p] = c.out.val]
                   /\ pc' = [pc EXCEPT ![p] = "retcheck"]
                   /\ UNCHANGED outcome
              ELSE /\ Finish(p, Propagate(c.out))
                   /\ UNCHANGED result
    /\ UNCHANGED <<fn, heap, attr, annotations, target, level, posargs, kwargs,
                   callargs, checked, calls, mutations>>

\* the check of the return value, and return result: to the wrapper above,
\* which checks it again, or to the caller
RetCheck(p) ==
    /\ pc[p] = "retcheck"
    /\ LET ann == Table(level[p])
       IN  /\ checked' = [checked EXCEPT ![p] =
                            IF "return" \in DOMAIN ann THEN @ \cup {"return"} ELSE @]
           /\ IF ReturnMismatch(result[p], ann)
              THEN /\ Finish(p, ReturnError(result[p], ann))
                   /\ UNCHANGED level
              ELSE IF level[p] < target[p]
              THEN /\ level' = [level EXCEPT ![p] = @ + 1]
                   /\ UNCHANGED <<pc, outcome>>
              ELSE /\ Finish(p, Returned(result[p]))
                   /\ UNCHANGED level
    /\ UNCHANGED <<fn, heap, attr, annotations, target, posargs, kwargs, callargs,
                   result, ran, sideEffects, calls, mutations>>

\* the caller has the outcome and the frame is gone
Exit(p) ==
    /\ pc[p] = "done"
    /\ pc' = [pc EXCEPT ![p] = "idle"]
    /\ posargs' = [posargs EXCEPT ![p] = <<>>]
    /\ kwargs' = [kwargs EXCEPT ![p] = <<>>]
    /\ callargs' = [callargs EXCEPT ![Slot(p)] = <<>>]
    /\ result' = [result EXCEPT ![p] = None]
    /\ outcome' = [outcome EXCEPT ![p] = Pending]
    /\ ran' = [ran EXCEPT ![p] = 0]
    /\ checked' = [checked EXCEPT ![p] = {}]
    /\ level' = [level EXCEPT ![p] = 1]
    /\ UNCHANGED <<fn, heap, attr, annotations, target, sideEffects, calls,
                   mutations>>

Steps(p) == Bind(p) \/ Check(p) \/ Call(p) \/ RetCheck(p)

\* one thread calling wrap(F), one call after the other
Next == Invoke(1, 1, Values, MaxKw) \/ Steps(1) \/ Exit(1)

Spec == Init /\ [][Next]_vars

\* ------------------------------------------------- two threads, wrap(F)
ParValues == {Int1, StrA}

InitPar == InitWith(TestSuiteCallables)

\* two threads calling wrap(F) with positional arguments, in any interleaving
NextPar == \E p \in Threads : Invoke(p, 1, ParValues, 0) \/ Steps(p) \/ Exit(p)

SpecPar == InitPar /\ [][NextPar]_vars

\* ------------------------------------ the annotation dicts, from outside
Put(m, k, v) == [n \in DOMAIN m \cup {k} |-> IF n = k THEN v ELSE m[n]]

Drop(m, k) == [n \in DOMAIN m \ {k} |-> m[n]]

Objects == {"function", "wrapper"}

AnnKeys == Range(fn.sig.args) \cup {"return"}

\* o.__annotations__[k] = T
SetItem(o, k, T) ==
    /\ mutations < MaxMutations
    /\ mutations' = mutations + 1
    /\ heap' = [heap EXCEPT ![attr[o]] = Put(@, k, T)]
    /\ UNCHANGED <<fn, attr, annotations, pc, target, level, posargs, kwargs,
                   callargs, result, outcome, ran, checked, sideEffects, calls>>

\* del o.__annotations__[k]
DelItem(o, k) ==
    /\ mutations < MaxMutations
    /\ k \in DOMAIN heap[attr[o]]
    /\ mutations' = mutations + 1
    /\ heap' = [heap EXCEPT ![attr[o]] = Drop(@, k)]
    /\ UNCHANGED <<fn, attr, annotations, pc, target, level, posargs, kwargs,
                   callargs, result, outcome, ran, checked, sideEffects, calls>>

\* o.__annotations__ = {k: T}: a new dict
Rebind(o, k, T) ==
    /\ mutations < MaxMutations
    /\ mutations' = mutations + 1
    /\ heap' = Append(heap, Put(EmptyMap, k, T))
    /\ attr' = [attr EXCEPT ![o] = Len(heap) + 1]
    /\ UNCHANGED <<fn, annotations, pc, target, level, posargs, kwargs,
                   callargs, result, outcome, ran, checked, sideEffects, calls>>

Mutate ==
    \E o \in Objects, k \in AnnKeys, T \in {"int", "str"} :
        SetItem(o, k, T) \/ DelItem(o, k) \/ Rebind(o, k, T)

NextEnv == Invoke(1, 1, ParValues, MaxKw) \/ Steps(1) \/ Exit(1) \/ Mutate

SpecEnv == InitPar /\ [][NextEnv]_vars

\* --------------------------------------- wrap(F) beside wrap(wrap(F))
\* the same argument list given to wrap(F) by thread 1 and to wrap(wrap(F))
\* by thread 2
InvokeBoth ==
    /\ calls = 0
    /\ calls' = 2
    /\ \E pos \in PosLists(Values, MaxPos), kw \in KwLists(KwNames(fn), Values, MaxKw) :
          /\ pc' = [p \in Threads |-> "bind"]
          /\ target' = [p \in Threads |-> p]
          /\ level' = [p \in Threads |-> p]
          /\ posargs' = [p \in Threads |-> pos]
          /\ kwargs' = [p \in Threads |-> kw]
    /\ UNCHANGED <<fn, heap, attr, annotations, callargs, result, outcome, ran,
                   checked, sideEffects, mutations>>

NextTwice == InvokeBoth \/ \E p \in Threads : Steps(p) \/ CallInner(p)

SpecTwice == Init /\ [][NextTwice]_vars

\* ----------------------------------------------------------------- claims
Done(p) == pc[p] = "done"

\* the binding of an invocation's arguments to F's parameters
Bound(p) == GetCallArgs(fn.sig, posargs[p], kwargs[p])

\* the type declared for bound item e when F was wrapped does not cover the
\* value: the value's type is neither it nor derived from it
Violates(e) == e.name \in DOMAIN fn.ann /\ fn.ann[e.name] \notin Mro(e.val.ty)

ParamViolation(p) ==
    Bound(p).ok /\ \E i \in 1..Len(Bound(p).items) : Violates(Bound(p).items[i])

\* what calling F itself with the invocation's arguments gives
Direct(p) == CallFunction(fn, posargs[p], kwargs[p])

\* F returns a value its declared return type does not cover
ReturnViolation(p) ==
    /\ Direct(p).out.kind = "return"
    /\ "return" \in DOMAIN fn.ann
    /\ fn.ann["return"] \notin Mro(Direct(p).out.val.ty)

Started(p) == pc[p] # "idle"

\* C1: a call that binds a value to a parameter whose declared type does not
\* cover it ends in a TypeMismatchError naming such a parameter, its declared
\* type and the value's type, and F's body does not run in it, whatever F
\* would have returned.
C1_ParamMismatchRejected ==
    \A p \in Threads :
        (Started(p) /\ target[p] = 1 /\ ParamViolation(p)) =>
            /\ ran[p] = 0
            /\ Done(p) =>
                /\ outcome[p].kind = "TypeMismatch"
                /\ \E i \in 1..Len(Bound(p).items) :
                      LET e == Bound(p).items[i]
                      IN  /\ Violates(e)
                          /\ outcome[p].name = e.name
                          /\ outcome[p].expected = fn.ann[e.name]
                          /\ outcome[p].actual = e.val.ty

\* bar('a'): the parameter is rejected although the return value would have
\* been rejected too; and a default that violates its own annotation
C1_Witness ==
    \E p \in Threads :
        /\ Done(p) /\ ParamViolation(p) /\ outcome[p].kind = "TypeMismatch"
        /\ fn = bar
        /\ posargs[p] = <<StrA>>

\* C2: when the parameters pass and F returns a value its declared return
\* type does not cover, the call ends in a TypeMismatchError for the return
\* value, and wherever a call ends so, F's body has run: its side effect
\* stands.
C2_ReturnMismatchAfterCall ==
    \A p \in Threads :
        /\ (outcome[p].kind = "TypeMismatch" /\ outcome[p].name = "return") =>
              ran[p] = 1 /\ sideEffects >= 1
        /\ (Done(p) /\ target[p] = 1 /\ Bound(p).ok /\ ~ParamViolation(p)
                /\ ReturnViolation(p)) =>
              /\ outcome[p] = Outcome("TypeMismatch", "return", fn.ann["return"],
                                      Direct(p).out.val.ty, None)
              /\ ran[p] = 1

\* bar(1)
C2_Witness ==
    \E p \in Threads :
        /\ Done(p) /\ fn = bar /\ posargs[p] = <<Int1>>
        /\ outcome[p].kind = "TypeMismatch" /\ outcome[p].name = "return"
        /\ sideEffects >= 1

C4_OwnErrorsPropagate ==
    \A p \in Threads :
        (Done(p) /\ ran[p] = 1 /\ Direct(p).out.kind = "FError") =>
            /\ outcome[p] = Direct(p).out
            /\ "return" \notin checked[p]

\* boom(1), whose return type is declared
C4_Witness ==
    \E p \in Threads :
        /\ Done(p) /\ fn = boom /\ ran[p] = 1
        /\ outcome[p].kind = "FError"
        /\ "return" \in DOMAIN fn.ann

C6_BindingAsDirect ==
    \A p \in Threads :
        (Done(p) /\ target[p] = 1) =>
            /\ outcome[p].kind = "BindingError"
                  <=> ~CallBinding(fn.sig, posargs[p], kwargs[p]).ok
            /\ outcome[p].kind = "BindingError" => checked[p] = {} /\ ran[p] = 0

\* C7: every check of a call reads the declarations F had when it was
\* wrapped.
C7_TableIsWrapSnapshot ==
    \A p \in Threads :
        pc[p] \in {"check", "retcheck"} => heap[annotations[level[p]]] = fn.ann

\* C8: a TypeMismatchError never rejects a value whose type is the declared
\* type or derives from it, as a parameter or as the return value.
C8_SubtypeAccepted ==
    \A p \in Threads :
        outcome[p].kind = "TypeMismatch" =>
            outcome[p].expected \notin Mro(outcome[p].actual)

\* ident(True): a bool passes as the int parameter and as the int result
C8_Witness ==
    \E p \in Threads :
        /\ Done(p) /\ fn = ident /\ posargs[p] = <<True>>
        /\ checked[p] = {"x", "return"}
        /\ outcome[p] = Returned(True)

\* the outcome of the checks of an invocation run alone
Alone(p) ==
    LET b == Bound(p)
        m == FirstMismatch(b.items, fn.ann)
    IN  IF ~b.ok THEN "BindingError"
        ELSE IF m # 0 THEN b.items[m].name
        ELSE "proceed"

\* the outcome of the checks of the invocation thread p ran
CheckOutcome(p) ==
    IF outcome[p].kind = "BindingError" THEN "BindingError"
    ELSE IF outcome[p].kind = "TypeMismatch" /\ outcome[p].name # "return"
    THEN outcome[p].name
    ELSE "proceed"

\* C9: in every interleaving and order of invocations, an invocation checks
\* the mapping bound from its own arguments, the shared table stays as it
\* was, and the outcome of its checks is the one it has when run alone.
C9_InvocationsIndependent ==
    /\ heap = <<fn.ann>>
    /\ \A p \in Threads :
          /\ pc[p] = "check" => callargs[Slot(p)] = Bound(p).items
          /\ Done(p) => CheckOutcome(p) = Alone(p)
          /\ Done(p) => (ran[p] = 1 <=> Alone(p) = "proceed")

\* two invocations in their checks at once, one to be rejected and one not
C9_Witness ==
    /\ pc[1] = "check" /\ pc[2] = "check"
    /\ Alone(1) = "proceed" /\ Alone(2) = "x"

\* C10: wrap(wrap(F)) called with an argument list ends as wrap(F) does, and
\* F's body runs as often.
C10_DoubleWrapSame ==
    (Done(1) /\ Done(2)) => (outcome[1] = outcome[2] /\ ran[1] = ran[2])
====
